---- MODULE Spec2Model ----
(***************************************************************************)
(* A model of deployment/aws/deploy.py: the two FastAPI handlers `deploy`  *)
(* (POST /deploy) and `advanced_deploy` (POST /advanced-deploy), the host  *)
(* state they share (/tmp/deployment, the working directory, the local     *)
(* docker image store) and the AWS services they call (ECR, Lambda).       *)
(*                                                                         *)
(* Each handler runs in a worker process; one statement of the handler that *)
(* runs a tool, calls a service or writes a file is one action.  Neither   *)
(* handler holds a lock, so the statements of two workers interleave.      *)
(* Text is modelled as a sequence of pieces (strings), concatenation as \o. *)
(***************************************************************************)
EXTENDS Integers, Sequences, FiniteSets, TLC

\* ------------------------------------------------------------------ bounds
\* Requests accepted over a run.
MaxRequests == 2
\* Longest build_commands list of an advanced request.
MaxCmds == 2

\* The worker processes of the host.
Workers == {1, 2}

\* ----------------------------------------------------------- python values
None == "<None>"
Truthy(s) == s # None /\ s # ""
\* Python's `a or b` on optional strings.
PyOr(a, b) == IF Truthy(a) THEN a ELSE b
\* An optional list or dict: NoList is None, Some(l) is the value l.
NoList == [some |-> FALSE, val |-> << >>]
Some(l) == [some |-> TRUE, val |-> l]
\* Python's `l or []` on an optional list.
OrEmpty(l) == IF l.some /\ l.val # << >> THEN l.val ELSE << >>
EmptyDict == << >>

\* ------------------------------------------------------------ environment
AccountId == "123456789012"
DefaultRegion == "us-west-2"
\* Values of the environment variable AWS_DEFAULT_REGION (None: unset).
EnvRegions == {None, "ap-south-1"}
\* os.getenv(name, default) on the environment value v.
GetEnv(v, default) == IF v = None THEN default ELSE v

\* --------------------------------------------------------------- requests
\* (python_script, region, vpc_id, subnet_ids, security_group_ids) of the
\* /deploy requests sent; the first is the request of the end-to-end scenario.
DeployCases ==
    { <<"handler_a", None, None, NoList, NoList>>,
      <<"handler_b", None, "vpc-1", Some(<<"subnet-1">>), NoList>>,
      <<"handler_a", "eu-west-1", None, Some(<<"subnet-1">>), Some(<<"sg-1">>)>>,
      <<"handler_b", "", "", Some(<<"subnet-1">>), NoList>>,
      <<"handler_a", None, "vpc-1", NoList, Some(<<"sg-1">>)>> }

DeployRequests ==
    { [endpoint |-> "deploy",
       python_script |-> c[1],
       requirements |-> IF c[1] = "handler_a" THEN "" ELSE "requests",
       repository_name |-> "demo",
       image_tag |-> "v1",
       function_name |-> "demo-fn",
       region |-> c[2],
       memory_size |-> IF c[1] = "handler_a" THEN 128 ELSE 256,
       storage_size |-> IF c[1] = "handler_a" THEN 512 ELSE 1024,
       vpc_id |-> c[3], subnet_ids |-> c[4], security_group_ids |-> c[5]] :
      c \in DeployCases }

\* Build commands an advanced request may carry, and its lists of them.
Commands == {"pip install x", "echo done", "rm -rf /tmp/cache"}
CommandLists == UNION { [1..n -> Commands] : n \in 0..MaxCmds }

\* An uploaded file.
Upload(name, content) == [filename |-> name, content |-> content]

\* The advanced request with build commands cs; its other fields follow from
\* the length of the list.
AdvancedRequest(cs) ==
    [endpoint |-> "advanced",
     base_image |-> IF Len(cs) = 1 THEN "python:3.11"
                    ELSE "public.ecr.aws/lambda/python:3.8",
     build_commands |-> cs,
     files |-> IF Len(cs) = 0
               THEN <<Upload("app.py", "adv_a"), Upload("util.py", "adv_util")>>
               ELSE <<Upload("app.py", "adv_b")>>,
     repository_name |-> "demo",
     image_tag |-> "v1",
     function_name |-> "demo-fn",
     region |-> IF Len(cs) = 1 THEN "eu-west-1" ELSE None,
     vpc_id |-> IF Len(cs) = 2 THEN "vpc-1" ELSE None,
     subnet_ids |-> IF Len(cs) = 0 THEN NoList ELSE Some(<<"subnet-1">>),
     security_group_ids |-> NoList]

\* The /advanced-deploy requests sent.
AdvancedRequests ==
    { AdvancedRequest(<< >>),
      AdvancedRequest(<<"echo done">>),
      AdvancedRequest(<<"pip install x", "echo done">>) }
\* Advanced requests with every list of build commands.
DockerfileRequests == { AdvancedRequest(cs) : cs \in CommandLists }

Requests == DeployRequests \cup AdvancedRequests
\* The requests sent while two workers serve side by side.
ConcurrentRequests ==
    { r \in Requests :
        \/ r.endpoint = "deploy" /\ r.region = None
                                 /\ ~r.security_group_ids.some
        \/ r.endpoint = "advanced" /\ Len(r.build_commands) = 0 }
NoRequest == [endpoint |-> "none"]

\* ------------------------------------------------------------ exceptions
HTTPException(detail) == [type |-> "HTTPException", detail |-> detail]
\* subprocess.run(..., check=True) on a non-zero exit.
CalledProcessError(cmd) ==
    [type |-> "CalledProcessError",
     detail |-> <<"Command ", cmd, " returned non-zero exit status 1.">>]
\* Anything else a tool or an AWS call raises.
OtherError(what) == [type |-> "Exception", detail |-> <<what>>]
\* str(e): HTTPException prints "<status_code>: <detail>".
Str(e) == IF e.type = "HTTPException" THEN <<"500", ": ">> \o e.detail
          ELSE e.detail
\* The handlers' except clauses: every exception becomes one 500 response.
ExceptHandler(e) == [status |-> 500, detail |-> Str(e)]

DaemonNotRunning == <<"Docker daemon is not running. Please start Docker daemon.">>

\* ------------------------------------------------------------- exit codes
ExitCodes == {0, 1}
\* How a finished tool run is recorded.
Exit(rc) == IF rc = 0 THEN "ok" ELSE "nonzero"
\* The handler without its test of the probe's exit code.
DockerNotRunningUntested(rc) == FALSE
\* `if docker_running.returncode != 0:`, lines 32 and 162.
DockerNotRunning(rc) == rc # 0
\* The handler without its test of the build's exit code.
BuildFailedUntested(rc) == FALSE
\* `if build_result.returncode != 0:`, lines 74 and 191.
BuildFailed(rc) == rc # 0
\* `if login_result.returncode != 0:`, line 92.
LoginFailed(rc) == rc # 0
\* subprocess.run without check=True: the exit code is dropped.
CheckRaisesNever(rc) == FALSE
\* subprocess.run(..., check=True) raises on a non-zero exit.
CheckRaises(rc) == rc # 0

\* ------------------------------------------------------------- file text
Indent == "        "
\* The f-string of deploy, lines 59-65.
SimpleDockerfile ==
    <<"\n", Indent, "FROM public.ecr.aws/lambda/python:3.8",
      "\n", Indent, "COPY requirements.txt .",
      "\n", Indent, "RUN pip install -r requirements.txt",
      "\n", Indent, "COPY app.py .",
      "\n", Indent, "CMD [\"app.lambda_handler\"]",
      "\n", Indent>>

\* The loop putting each command before the ones already written.
RECURSIVE AppendRunsReversed(_, _, _)
AppendRunsReversed(content, cmds, i) ==
    IF i > Len(cmds) THEN content
    ELSE AppendRunsReversed(content, cmds, i + 1) \o <<"\n", "RUN ", cmds[i]>>

\* The loop of advanced_deploy, lines 180-181, from command i on.
RECURSIVE AppendRuns(_, _, _)
AppendRuns(content, cmds, i) ==
    IF i > Len(cmds) THEN content
    ELSE AppendRuns(content \o <<"\n", "RUN ", cmds[i]>>, cmds, i + 1)

\* dockerfile_content of advanced_deploy, lines 177-183.
AdvancedDockerfile(base_image, build_commands) ==
    AppendRuns(<<"\n", Indent, "FROM ", base_image, "\n", Indent>>,
               build_commands, 1)
        \o <<"\n", "COPY . .">>
        \o <<"\n", "CMD [\"app.lambda_handler\"]">>

\* A directory: file name -> content.  Writing a file replaces it.
EmptyDir == << >>
WriteFile(dir, name, content) == (name :> content) @@ dir

\* ----------------------------------------------------------- image names
\* image_name = f"{request.repository_name}:{request.image_tag}"
ImageName(r) == <<r.repository_name, ":", r.image_tag>>
\* The environment consulted before the request.
EffectiveRegionEnvFirst(r, env) == PyOr(GetEnv(env, r.region), DefaultRegion)
\* region = request.region or os.getenv("AWS_DEFAULT_REGION", "us-west-2")
EffectiveRegion(r, env) == PyOr(r.region, GetEnv(env, DefaultRegion))
\* ecr_uri = f"{account_id}.dkr.ecr.{region}.amazonaws.com"
EcrUri(account_id, region) == <<account_id, ".dkr.ecr.", region, ".amazonaws.com">>
\* f"{ecr_uri}/{image_name}"
RemoteRef(ecr_uri, image_name) == ecr_uri \o <<"/">> \o image_name

\* What `docker build -t name dir` stores under name: the context it read.
BuildContext(dir) == dir

\* --------------------------------------------------------------- services
\* The ARN Lambda reports for a function of this account.
FunctionArn(region, name) ==
    <<"arn:aws:lambda:", region, ":", AccountId, ":function:", name>>
\* ensure_iam_role(role_name, account_id) of services.aws_services.
EnsureIamRole(role_name, account_id) ==
    <<"arn:aws:iam::", account_id, ":role/", role_name>>
RoleName == "lambda-execution-role"

\* The call without its test of vpc_id.
CreateVpcConfigUntested(r) ==
    [SubnetIds |-> OrEmpty(r.subnet_ids),
     SecurityGroupIds |-> OrEmpty(r.security_group_ids)]
\* VpcConfig of deploy's create_function call, lines 125-128.
CreateVpcConfig(r) ==
    IF Truthy(r.vpc_id)
    THEN [SubnetIds |-> OrEmpty(r.subnet_ids),
          SecurityGroupIds |-> OrEmpty(r.security_group_ids)]
    ELSE EmptyDict
\* The update path without its test of vpc_id.
NeedsConfigUpdateAlways(r) == TRUE
\* `if request.vpc_id:` of deploy's update path, line 136.
NeedsConfigUpdate(r) == Truthy(r.vpc_id)
\* VpcConfig of deploy's update_function_configuration call, lines 143-146.
UpdateVpcConfig(r) ==
    [SubnetIds |-> OrEmpty(r.subnet_ids),
     SecurityGroupIds |-> OrEmpty(r.security_group_ids)]

\* Keyword arguments of deploy's create_function call, lines 113-129.
CreateFunctionArgs(r, role_arn, ref) ==
    [FunctionName |-> r.function_name,
     Role |-> role_arn,
     Code |-> [ImageUri |-> ref],
     PackageType |-> "Image",
     Publish |-> TRUE,
     MemorySize |-> r.memory_size,
     EphemeralStorage |-> [Size |-> r.storage_size],
     VpcConfig |-> CreateVpcConfig(r)]
\* Keyword arguments of deploy's update_function_code call, lines 131-135.
UpdateCodeArgs(r, ref) ==
    [FunctionName |-> r.function_name, ImageUri |-> ref, Publish |-> TRUE]
\* Keyword arguments of deploy's update_function_configuration call, 137-147.
UpdateConfigArgs(r) ==
    [FunctionName |-> r.function_name,
     MemorySize |-> r.memory_size,
     EphemeralStorage |-> [Size |-> r.storage_size],
     VpcConfig |-> UpdateVpcConfig(r)]

\* The function Lambda holds after a create_function call with these arguments.
CreatedFunction(args) ==
    [image |-> args.Code.ImageUri, role |-> args.Role,
     memory |-> args.MemorySize, storage |-> args.EphemeralStorage.Size,
     vpc |-> IF "VpcConfig" \in DOMAIN args THEN args.VpcConfig ELSE EmptyDict]

\* ------------------------------------------------------------------ state
VARIABLES
    pc,            \* worker -> the statement it is at
    req,           \* worker -> the request it handles
    loc,           \* worker -> the handler's local variables
    calls,         \* worker -> the tool runs, service calls and writes made
    response,      \* worker -> the responses sent for the request
    tmpDir,        \* /tmp/deployment
    cwd,           \* the process's working directory
    localImages,   \* the docker daemon's image store: name -> image
    ecrRepos,      \* ECR: the repositories, as <<region, name>>
    ecrImages,     \* ECR: pushed reference -> image
    lambdaFns,     \* Lambda: <<region, name>> -> function
    created,       \* Lambda: the keys of the functions created, in order
    awsCli,        \* whether the AWS CLI is installed on the host
    envRegion,     \* AWS_DEFAULT_REGION
    nStarted       \* requests accepted so far

vars == <<pc, req, loc, calls, response, tmpDir, cwd, localImages, ecrRepos,
          ecrImages, lambdaFns, created, awsCli, envRegion, nStarted>>
host == <<tmpDir, cwd, localImages, awsCli>>
aws == <<ecrRepos, ecrImages, lambdaFns, created>>

NoLocals ==
    [region |-> None, account_id |-> None, ecr_uri |-> << >>,
     image_uri |-> << >>, role_arn |-> << >>, arn |-> << >>,
     built |-> EmptyDir, i |-> 1]

Init ==
    /\ pc = [p \in Workers |-> "idle"]
    /\ req = [p \in Workers |-> NoRequest]
    /\ loc = [p \in Workers |-> NoLocals]
    /\ calls = [p \in Workers |-> << >>]
    /\ response = [p \in Workers |-> << >>]
    /\ tmpDir = EmptyDir
    /\ cwd = EmptyDir
    /\ localImages = << >>
    /\ ecrRepos = {}
    /\ ecrImages = << >>
    /\ lambdaFns = << >>
    /\ created = << >>
    /\ awsCli \in BOOLEAN
    /\ envRegion \in EnvRegions
    /\ nStarted = 0

\* ---------------------------------------------------------- step helpers
\* A tool run, service call or write: what, with what, and how it ended.
Call(op, arg, res) == [op |-> op, region |-> None, arg |-> arg, res |-> res]
\* A call through a client or a CLI flag bound to a region.
CallIn(region, op, arg, res) ==
    [op |-> op, region |-> region, arg |-> arg, res |-> res]
\* The statement ran and the handler goes on to statement `next`.
Proceed(p, c, next) ==
    /\ calls' = [calls EXCEPT ![p] = Append(@, c)]
    /\ pc' = [pc EXCEPT ![p] = next]
    /\ UNCHANGED <<req, response, envRegion, nStarted>>
\* The statement raised e: the except clause answers and the handler ends.
Raise(p, c, e) ==
    /\ calls' = [calls EXCEPT ![p] = Append(@, c)]
    /\ pc' = [pc EXCEPT ![p] = "done"]
    /\ response' = [response EXCEPT ![p] = Append(@, ExceptHandler(e))]
    /\ UNCHANGED <<req, envRegion, nStarted>>

\* Worker p accepts one of the requests R.
Accept(p, R) ==
    /\ pc[p] \in {"idle", "done"}
    /\ nStarted < MaxRequests
    /\ \E r \in R :
          /\ req' = [req EXCEPT ![p] = r]
          /\ pc' = [pc EXCEPT ![p] =
                       IF r.endpoint = "deploy" THEN "docker_info"
                       ELSE "adv_docker_info"]
    /\ loc' = [loc EXCEPT ![p] = NoLocals]
    /\ calls' = [calls EXCEPT ![p] = << >>]
    /\ response' = [response EXCEPT ![p] = << >>]
    /\ nStarted' = nStarted + 1
    /\ UNCHANGED <<host, aws, envRegion>>

\* ------------------------------------------------------- POST /deploy
\* Lines 31-33 (and 161-163): docker info.
docker_info(p, next) ==
    /\ \/ \E rc \in ExitCodes :
             IF DockerNotRunning(rc)
             THEN Raise(p, Call("docker_info", << >>, Exit(rc)),
                        HTTPException(DaemonNotRunning))
             ELSE Proceed(p, Call("docker_info", << >>, Exit(rc)), next)
       \/ Raise(p, Call("docker_info", << >>, "raised"),
                OtherError("No such file or directory: 'docker'"))
    /\ UNCHANGED <<loc, host, aws>>

deploy_docker_info(p) ==
    /\ pc[p] = "docker_info"
    /\ docker_info(p, "aws_version")

\* Lines 36-38 (and 166-168): aws --version; a non-zero exit leads to
\* install_aws_cli, a missing executable raises.
aws_version(p, next, install) ==
    /\ \/ /\ awsCli
          /\ Proceed(p, Call("aws_version", << >>, "ok"), next)
       \/ /\ ~awsCli
          /\ Proceed(p, Call("aws_version", << >>, "nonzero"), install)
       \/ /\ ~awsCli
          /\ Raise(p, Call("aws_version", << >>, "raised"),
                   OtherError("No such file or directory: 'aws'"))
    /\ UNCHANGED <<loc, host, aws>>

deploy_aws_version(p) ==
    /\ pc[p] = "aws_version"
    /\ aws_version(p, "venv", "install_aws_cli")

\* The commands of install_aws_cli, lines 21-24, in order.
InstallCommands == <<"curl", "unzip", "sudo ./aws/install", "rm">>
\* The CLI is on the host once the third command has run.
Installed(failAt) == failAt = 0 \/ failAt > 3

\* Lines 20-24 (awaited at line 38): failAt is the command that exits
\* non-zero, 0 when none does.
install_aws_cli(p, next) ==
    \E failAt \in 0..Len(InstallCommands) :
        /\ awsCli' = (awsCli \/ Installed(failAt))
        /\ IF failAt = 0
           THEN Proceed(p, Call("install_aws_cli", failAt, "ok"), next)
           ELSE Raise(p, Call("install_aws_cli", failAt, "nonzero"),
                      CalledProcessError(InstallCommands[failAt]))
        /\ UNCHANGED <<loc, tmpDir, cwd, localImages, aws>>

deploy_install_aws_cli(p) ==
    /\ pc[p] = "install_aws_cli"
    /\ install_aws_cli(p, "venv")

\* Line 41: python3 -m venv venv, in the working directory.
deploy_venv(p) ==
    /\ pc[p] = "venv"
    /\ \E rc \in ExitCodes :
          /\ cwd' = IF rc = 0 THEN WriteFile(cwd, "venv", "venv") ELSE cwd
          /\ IF CheckRaises(rc)
             THEN Raise(p, Call("venv", << >>, Exit(rc)),
                        CalledProcessError("python3 -m venv venv"))
             ELSE Proceed(p, Call("venv", << >>, Exit(rc)), "write_app")
    /\ UNCHANGED <<loc, tmpDir, localImages, awsCli, aws>>

\* The write made to wait while another worker is between its first write to
\* /tmp/deployment and its build.
deploy_write_app_exclusive(p) ==
    /\ pc[p] = "write_app"
    /\ \A q \in Workers \ {p} :
          pc[q] \notin {"write_requirements", "pip_install", "write_dockerfile",
                        "docker_build"}
    /\ tmpDir' = WriteFile(tmpDir, "app.py", req[p].python_script)
    /\ Proceed(p, Call("write_app", req[p].python_script, "ok"),
               "write_requirements")
    /\ UNCHANGED <<loc, cwd, localImages, awsCli, aws>>

\* Lines 44-48: /tmp/deployment/app.py.
deploy_write_app(p) ==
    /\ pc[p] = "write_app"
    /\ tmpDir' = WriteFile(tmpDir, "app.py", req[p].python_script)
    /\ Proceed(p, Call("write_app", req[p].python_script, "ok"),
               "write_requirements")
    /\ UNCHANGED <<loc, cwd, localImages, awsCli, aws>>

\* Lines 51-53: /tmp/deployment/requirements.txt.
deploy_write_requirements(p) ==
    /\ pc[p] = "write_requirements"
    /\ tmpDir' = WriteFile(tmpDir, "requirements.txt", req[p].requirements)
    /\ Proceed(p, Call("write_requirements", req[p].requirements, "ok"),
               "pip_install")
    /\ UNCHANGED <<loc, cwd, localImages, awsCli, aws>>

\* Line 56: venv/bin/pip install -r requirements.txt.
deploy_pip_install(p) ==
    /\ pc[p] = "pip_install"
    /\ \E rc \in ExitCodes :
          IF CheckRaises(rc)
          THEN Raise(p, Call("pip_install", << >>, Exit(rc)),
                     CalledProcessError("venv/bin/pip install"))
          ELSE Proceed(p, Call("pip_install", << >>, Exit(rc)), "write_dockerfile")
    /\ UNCHANGED <<loc, host, aws>>

\* Lines 59-68: /tmp/deployment/Dockerfile.
deploy_write_dockerfile(p) ==
    /\ pc[p] = "write_dockerfile"
    /\ tmpDir' = WriteFile(tmpDir, "Dockerfile", SimpleDockerfile)
    /\ Proceed(p, Call("write_dockerfile", SimpleDockerfile, "ok"),
               "docker_build")
    /\ UNCHANGED <<loc, cwd, localImages, awsCli, aws>>

\* Lines 71-75: docker build -t image_name /tmp/deployment.
deploy_docker_build(p) ==
    /\ pc[p] = "docker_build"
    /\ \E rc \in ExitCodes :
          /\ localImages' =
                IF rc = 0
                THEN WriteFile(localImages, ImageName(req[p]), BuildContext(tmpDir))
                ELSE localImages
          /\ loc' = IF rc = 0
                    THEN [loc EXCEPT ![p].built = BuildContext(tmpDir)] ELSE loc
          /\ IF BuildFailed(rc)
             THEN Raise(p, Call("docker_build", ImageName(req[p]), Exit(rc)),
                        HTTPException(<<"Docker build failed: ", "stderr">>))
             ELSE Proceed(p, Call("docker_build", ImageName(req[p]), Exit(rc)),
                          "get_caller_identity")
    /\ UNCHANGED <<tmpDir, cwd, awsCli, aws>>

\* Lines 78-80: the region, the account of the caller, the registry host.
deploy_get_caller_identity(p) ==
    /\ pc[p] = "get_caller_identity"
    /\ \/ /\ Proceed(p, Call("get_caller_identity", << >>, "ok"),
                     "get_login_password")
          /\ loc' = [loc EXCEPT
                       ![p].region = EffectiveRegion(req[p], envRegion),
                       ![p].account_id = AccountId,
                       ![p].ecr_uri =
                           EcrUri(AccountId, EffectiveRegion(req[p], envRegion))]
       \/ /\ Raise(p, Call("get_caller_identity", << >>, "raised"),
                   OtherError("Unable to locate credentials"))
          /\ UNCHANGED loc
    /\ UNCHANGED <<host, aws>>

\* Lines 82-85: aws ecr get-login-password --region region.
deploy_get_login_password(p) ==
    /\ pc[p] = "get_login_password"
    /\ \E rc \in ExitCodes :
          IF CheckRaises(rc)
          THEN Raise(p, CallIn(loc[p].region, "get_login_password", << >>, Exit(rc)),
                     CalledProcessError("aws ecr get-login-password"))
          ELSE Proceed(p, CallIn(loc[p].region, "get_login_password", << >>, Exit(rc)),
                       "docker_login")
    /\ UNCHANGED <<loc, host, aws>>

\* Lines 87-93: docker login to the registry host.
deploy_docker_login(p) ==
    /\ pc[p] = "docker_login"
    /\ \E rc \in ExitCodes :
          IF LoginFailed(rc)
          THEN Raise(p, Call("docker_login", loc[p].ecr_uri, Exit(rc)),
                     HTTPException(<<"Docker login failed: ", "stderr">>))
          ELSE Proceed(p, Call("docker_login", loc[p].ecr_uri, Exit(rc)),
                       "create_repository")
    /\ UNCHANGED <<loc, host, aws>>

\* The handler without its except clause for an existing repository.
RepositoryOutcomeRaisesOnExisting(outcome) == outcome # "ok"

\* What the handler does with create_repository's outcome, lines 97-100:
\* RepositoryAlreadyExistsException is passed over.
RepositoryOutcomeRaises(outcome) == outcome \notin {"ok", "exists"}

\* Lines 96-100: ecr_client.create_repository.
deploy_create_repository(p) ==
    /\ pc[p] = "create_repository"
    /\ LET key == <<loc[p].region, req[p].repository_name>> IN
       \E outcome \in {IF key \in ecrRepos THEN "exists" ELSE "ok", "error"} :
          /\ ecrRepos' = IF outcome = "ok" THEN ecrRepos \cup {key} ELSE ecrRepos
          /\ IF RepositoryOutcomeRaises(outcome)
             THEN Raise(p, CallIn(loc[p].region, "create_repository",
                                  req[p].repository_name, outcome),
                        OtherError(IF outcome = "exists"
                                   THEN "RepositoryAlreadyExistsException"
                                   ELSE "create_repository failed"))
             ELSE Proceed(p, CallIn(loc[p].region, "create_repository",
                                    req[p].repository_name, outcome),
                          "docker_tag")
    /\ UNCHANGED <<loc, host, ecrImages, lambdaFns, created>>

\* Line 103: docker tag image_name ecr_uri/image_name.
deploy_docker_tag(p) ==
    /\ pc[p] = "docker_tag"
    /\ LET name == ImageName(req[p])
           ref == RemoteRef(loc[p].ecr_uri, name) IN
       \E rc \in IF name \in DOMAIN localImages THEN ExitCodes ELSE {1} :
          /\ localImages' = IF rc = 0
                            THEN WriteFile(localImages, ref, localImages[name])
                            ELSE localImages
          /\ IF CheckRaises(rc)
             THEN Raise(p, Call("docker_tag", ref, Exit(rc)),
                        CalledProcessError("docker tag"))
             ELSE Proceed(p, Call("docker_tag", ref, Exit(rc)), "docker_push")
    /\ UNCHANGED <<loc, tmpDir, cwd, awsCli, aws>>

\* Line 104: docker push ecr_uri/image_name.
deploy_docker_push(p) ==
    /\ pc[p] = "docker_push"
    /\ LET ref == RemoteRef(loc[p].ecr_uri, ImageName(req[p])) IN
       \E rc \in IF ref \in DOMAIN localImages THEN ExitCodes ELSE {1} :
          /\ ecrImages' = IF rc = 0
                          THEN WriteFile(ecrImages, ref, localImages[ref])
                          ELSE ecrImages
          /\ IF CheckRaises(rc)
             THEN Raise(p, Call("docker_push", ref, Exit(rc)),
                        CalledProcessError("docker push"))
             ELSE Proceed(p, Call("docker_push", ref, Exit(rc)), "ensure_iam_role")
    /\ UNCHANGED <<loc, host, ecrRepos, lambdaFns, created>>

\* Lines 107-108: ensure_iam_role("lambda-execution-role", account_id).
deploy_ensure_iam_role(p) ==
    /\ pc[p] = "ensure_iam_role"
    /\ \/ /\ Proceed(p, Call("ensure_iam_role", RoleName, "ok"), "create_function")
          /\ loc' = [loc EXCEPT
                       ![p].role_arn = EnsureIamRole(RoleName, loc[p].account_id)]
       \/ /\ Raise(p, Call("ensure_iam_role", RoleName, "raised"),
                   OtherError("ensure_iam_role failed"))
          /\ UNCHANGED loc
    /\ UNCHANGED <<host, aws>>

\* The handler without its except clause for ResourceConflictException.
AfterCreateFunctionNoFallback(outcome) ==
    IF outcome = "ok" THEN "return" ELSE "raise"

\* Where the handler goes on create_function's outcome, lines 112-130:
\* ResourceConflictException leads to the update path.
AfterCreateFunction(outcome) ==
    CASE outcome = "ok" -> "return"
      [] outcome = "conflict" -> "update_function_code"
      [] OTHER -> "raise"

\* Lines 110-130: lambda_client.create_function.
deploy_create_function(p) ==
    /\ pc[p] = "create_function"
    /\ LET key == <<loc[p].region, req[p].function_name>>
           ref == RemoteRef(loc[p].ecr_uri, ImageName(req[p]))
           args == CreateFunctionArgs(req[p], loc[p].role_arn, ref) IN
       \E outcome \in {IF key \in DOMAIN lambdaFns THEN "conflict" ELSE "ok",
                       "error"} :
          /\ IF outcome = "ok"
             THEN /\ lambdaFns' = WriteFile(lambdaFns, key, CreatedFunction(args))
                  /\ created' = Append(created, key)
             ELSE UNCHANGED <<lambdaFns, created>>
          /\ IF AfterCreateFunction(outcome) = "raise"
             THEN /\ Raise(p, CallIn(key[1], "create_function", args, outcome),
                           OtherError(IF outcome = "conflict"
                                      THEN "ResourceConflictException"
                                      ELSE "create_function failed"))
                  /\ UNCHANGED loc
             ELSE /\ Proceed(p, CallIn(key[1], "create_function", args, outcome),
                             AfterCreateFunction(outcome))
                  /\ loc' = [loc EXCEPT ![p].arn =
                                IF outcome = "ok"
                                THEN FunctionArn(key[1], key[2]) ELSE @]
    /\ UNCHANGED <<host, ecrRepos, ecrImages>>

\* Lines 131-136: lambda_client.update_function_code, then the test on vpc_id.
deploy_update_function_code(p) ==
    /\ pc[p] = "update_function_code"
    /\ LET key == <<loc[p].region, req[p].function_name>>
           ref == RemoteRef(loc[p].ecr_uri, ImageName(req[p]))
           args == UpdateCodeArgs(req[p], ref) IN
       \/ /\ key \in DOMAIN lambdaFns
          /\ lambdaFns' = [lambdaFns EXCEPT ![key].image = ref]
          /\ loc' = [loc EXCEPT ![p].arn = FunctionArn(key[1], key[2])]
          /\ Proceed(p, CallIn(key[1], "update_function_code", args, "ok"),
                     IF NeedsConfigUpdate(req[p])
                     THEN "update_function_configuration" ELSE "return")
       \/ /\ Raise(p, CallIn(key[1], "update_function_code", args, "error"),
                   OtherError("update_function_code failed"))
          /\ UNCHANGED <<loc, lambdaFns>>
    /\ UNCHANGED <<host, ecrRepos, ecrImages, created>>

\* Lines 137-147: lambda_client.update_function_configuration.
deploy_update_function_configuration(p) ==
    /\ pc[p] = "update_function_configuration"
    /\ LET key == <<loc[p].region, req[p].function_name>>
           args == UpdateConfigArgs(req[p]) IN
       \/ /\ key \in DOMAIN lambdaFns
          /\ lambdaFns' = [lambdaFns EXCEPT
                             ![key].memory = args.MemorySize,
                             ![key].storage = args.EphemeralStorage.Size,
                             ![key].vpc = args.VpcConfig]
          /\ Proceed(p, CallIn(key[1], "update_function_configuration", args, "ok"),
                     "return")
       \/ /\ Raise(p, CallIn(key[1], "update_function_configuration", args,
                          "error"),
                   OtherError("update_function_configuration failed"))
          /\ UNCHANGED lambdaFns
    /\ UNCHANGED <<loc, host, ecrRepos, ecrImages, created>>

\* Line 149: the success response.
deploy_return(p) ==
    /\ pc[p] = "return"
    /\ pc' = [pc EXCEPT ![p] = "done"]
    /\ response' = [response EXCEPT ![p] = Append(@,
          [status |-> 200,
           message |-> "Deployment successful",
           image_uri |-> RemoteRef(loc[p].ecr_uri, ImageName(req[p])),
           lambda_arn |-> loc[p].arn])]
    /\ UNCHANGED <<req, loc, calls, host, aws, envRegion, nStarted>>

deploy(p) ==
    \/ deploy_docker_info(p)
    \/ deploy_aws_version(p)
    \/ deploy_install_aws_cli(p)
    \/ deploy_venv(p)
    \/ deploy_write_app(p)
    \/ deploy_write_requirements(p)
    \/ deploy_pip_install(p)
    \/ deploy_write_dockerfile(p)
    \/ deploy_docker_build(p)
    \/ deploy_get_caller_identity(p)
    \/ deploy_get_login_password(p)
    \/ deploy_docker_login(p)
    \/ deploy_create_repository(p)
    \/ deploy_docker_tag(p)
    \/ deploy_docker_push(p)
    \/ deploy_ensure_iam_role(p)
    \/ deploy_create_function(p)
    \/ deploy_update_function_code(p)
    \/ deploy_update_function_configuration(p)
    \/ deploy_return(p)

\* ---------------------------------------------- POST /advanced-deploy
advanced_docker_info(p) ==
    /\ pc[p] = "adv_docker_info"
    /\ docker_info(p, "adv_aws_version")

advanced_aws_version(p) ==
    /\ pc[p] = "adv_aws_version"
    /\ aws_version(p, "adv_save_files", "adv_install_aws_cli")

advanced_install_aws_cli(p) ==
    /\ pc[p] = "adv_install_aws_cli"
    /\ install_aws_cli(p, "adv_save_files")

\* Lines 171-174: one turn of the loop, writing ./<filename>.
advanced_save_file(p) ==
    /\ pc[p] = "adv_save_files"
    /\ LET i == loc[p].i
           file == req[p].files[i] IN
       /\ i <= Len(req[p].files)
       /\ cwd' = WriteFile(cwd, file.filename, file.content)
       /\ loc' = [loc EXCEPT ![p].i = i + 1]
       /\ Proceed(p, Call("save_file", file.filename, "ok"),
                  IF i + 1 > Len(req[p].files)
                  THEN "adv_write_dockerfile" ELSE "adv_save_files")
    /\ UNCHANGED <<tmpDir, localImages, awsCli, aws>>

\* Lines 177-186: ./Dockerfile.
advanced_write_dockerfile(p) ==
    /\ pc[p] = "adv_write_dockerfile"
    /\ LET content ==
             AdvancedDockerfile(req[p].base_image, req[p].build_commands) IN
       /\ cwd' = WriteFile(cwd, "Dockerfile", content)
       /\ Proceed(p, Call("write_dockerfile", content, "ok"), "adv_docker_build")
    /\ UNCHANGED <<loc, tmpDir, localImages, awsCli, aws>>

\* Lines 189-192: docker build -t image_name .
advanced_docker_build(p) ==
    /\ pc[p] = "adv_docker_build"
    /\ \E rc \in ExitCodes :
          /\ localImages' =
                IF rc = 0
                THEN WriteFile(localImages, ImageName(req[p]), BuildContext(cwd))
                ELSE localImages
          /\ loc' = IF rc = 0
                    THEN [loc EXCEPT ![p].built = BuildContext(cwd)] ELSE loc
          /\ IF BuildFailed(rc)
             THEN Raise(p, Call("docker_build", ImageName(req[p]), Exit(rc)),
                        HTTPException(<<"Docker build failed: ", "stderr">>))
             ELSE Proceed(p, Call("docker_build", ImageName(req[p]), Exit(rc)),
                          "adv_push")
    /\ UNCHANGED <<tmpDir, cwd, awsCli, aws>>

\* The steps of push_docker_image_to_ecr (services.aws_services), in order.
PublishSteps ==
    <<"get_caller_identity", "docker_login", "create_repository",
      "docker_tag", "docker_push">>

\* Lines 195-196: region, then push_docker_image_to_ecr(repository_name,
\* image_tag, region_name=region); failAt is the step that fails, 0 when
\* none does.  An existing repository is no failure.
advanced_push_docker_image_to_ecr(p) ==
    /\ pc[p] = "adv_push"
    /\ LET region == EffectiveRegion(req[p], envRegion)
           name == ImageName(req[p])
           ref == RemoteRef(EcrUri(AccountId, region), name)
           key == <<region, req[p].repository_name>> IN
       \E failAt \in 0..Len(PublishSteps) :
          /\ failAt \in {0, 4, 5} => name \in DOMAIN localImages
          /\ ecrRepos' = IF failAt \in {0, 4, 5}
                         THEN ecrRepos \cup {key} ELSE ecrRepos
          /\ localImages' = IF failAt \in {0, 5}
                            THEN WriteFile(localImages, ref, localImages[name])
                            ELSE localImages
          /\ ecrImages' = IF failAt = 0
                          THEN WriteFile(ecrImages, ref, localImages[name])
                          ELSE ecrImages
          /\ IF failAt = 0
             THEN /\ Proceed(p, CallIn(region, "push_docker_image_to_ecr", ref, "ok"),
                             "adv_get_caller_identity")
                  /\ loc' = [loc EXCEPT ![p].region = region,
                                        ![p].image_uri = ref]
             ELSE /\ Raise(p, CallIn(region, "push_docker_image_to_ecr", ref, "error"),
                           OtherError(PublishSteps[failAt]))
                  /\ UNCHANGED loc
    /\ UNCHANGED <<tmpDir, cwd, awsCli, lambdaFns, created>>

\* Line 199: the account of the caller.
advanced_get_caller_identity(p) ==
    /\ pc[p] = "adv_get_caller_identity"
    /\ \/ /\ Proceed(p, Call("get_caller_identity", << >>, "ok"),
                     "adv_ensure_iam_role")
          /\ loc' = [loc EXCEPT ![p].account_id = AccountId]
       \/ /\ Raise(p, Call("get_caller_identity", << >>, "raised"),
                   OtherError("Unable to locate credentials"))
          /\ UNCHANGED loc
    /\ UNCHANGED <<host, aws>>

\* Line 200: ensure_iam_role("lambda-execution-role", account_id).
advanced_ensure_iam_role(p) ==
    /\ pc[p] = "adv_ensure_iam_role"
    /\ \/ /\ Proceed(p, Call("ensure_iam_role", RoleName, "ok"),
                     "adv_create_or_update")
          /\ loc' = [loc EXCEPT
                       ![p].role_arn = EnsureIamRole(RoleName, loc[p].account_id)]
       \/ /\ Raise(p, Call("ensure_iam_role", RoleName, "raised"),
                   OtherError("ensure_iam_role failed"))
          /\ UNCHANGED loc
    /\ UNCHANGED <<host, aws>>

\* memory_size and storage_size of line 209.
AdvancedMemorySize == 128
AdvancedStorageSize == 512

\* vpc_config of advanced_deploy, lines 203-206.
AdvancedVpcConfig(r) ==
    IF Truthy(r.vpc_id)
    THEN Some([SubnetIds |-> OrEmpty(r.subnet_ids),
               SecurityGroupIds |-> OrEmpty(r.security_group_ids)])
    ELSE NoList

\* Keyword and positional arguments of the call at lines 207-210.
HelperArgs(r, image_uri, role_arn, region) ==
    [function_name |-> r.function_name,
     image_uri |-> image_uri,
     role_arn |-> role_arn,
     region_name |-> region,
     memory_size |-> AdvancedMemorySize,
     storage_size |-> AdvancedStorageSize,
     vpc_config |-> AdvancedVpcConfig(r)]

\* create_or_update_lambda_function (services.aws_services): the function
\* Lambda holds after it got as far as `how`.  It creates with the full
\* configuration; on a conflict it updates the code and, with a vpc_config
\* only, the configuration in a second call.
HelperEffect(how, fns, key, a) ==
    LET full == [image |-> a.image_uri, role |-> a.role_arn,
                 memory |-> a.memory_size, storage |-> a.storage_size,
                 vpc |-> IF a.vpc_config.some THEN a.vpc_config.val
                         ELSE EmptyDict] IN
    CASE how = "created" -> WriteFile(fns, key, full)
      [] how \in {"create_failed", "code_failed"} -> fns
      [] how = "config_failed" -> [fns EXCEPT ![key].image = a.image_uri]
      [] how = "updated" ->
            IF a.vpc_config.some
            THEN [fns EXCEPT ![key].image = a.image_uri,
                             ![key].memory = a.memory_size,
                             ![key].storage = a.storage_size,
                             ![key].vpc = a.vpc_config.val]
            ELSE [fns EXCEPT ![key].image = a.image_uri]

\* How far create_or_update_lambda_function may get.
HelperOutcomes(exists, a) ==
    IF ~exists THEN {"created", "create_failed"}
    ELSE {"create_failed", "code_failed", "updated"} \cup
         (IF a.vpc_config.some THEN {"config_failed"} ELSE {})

\* Lines 203-210: create_or_update_lambda_function(function_name, image_uri,
\* role_arn, region_name=region, memory_size=128, storage_size=512,
\* vpc_config=vpc_config).
advanced_create_or_update_lambda_function(p) ==
    /\ pc[p] = "adv_create_or_update"
    /\ LET key == <<loc[p].region, req[p].function_name>>
           a == HelperArgs(req[p], loc[p].image_uri, loc[p].role_arn,
                           loc[p].region) IN
       \E how \in HelperOutcomes(key \in DOMAIN lambdaFns, a) :
          /\ lambdaFns' = HelperEffect(how, lambdaFns, key, a)
          /\ created' = IF how = "created" THEN Append(created, key) ELSE created
          /\ IF how \in {"created", "updated"}
             THEN /\ Proceed(p, Call("create_or_update_lambda_function", a, "ok"),
                             "adv_return")
                  /\ loc' = [loc EXCEPT ![p].arn = FunctionArn(key[1], key[2])]
             ELSE /\ Raise(p, Call("create_or_update_lambda_function", a, "error"),
                           OtherError(how))
                  /\ UNCHANGED loc
    /\ UNCHANGED <<host, ecrRepos, ecrImages>>

\* Line 212: the success response.
advanced_return(p) ==
    /\ pc[p] = "adv_return"
    /\ pc' = [pc EXCEPT ![p] = "done"]
    /\ response' = [response EXCEPT ![p] = Append(@,
          [status |-> 200,
           message |-> "Advanced deployment successful",
           image_uri |-> loc[p].image_uri,
           lambda_arn |-> loc[p].arn])]
    /\ UNCHANGED <<req, loc, calls, host, aws, envRegion, nStarted>>

advanced_deploy(p) ==
    \/ advanced_docker_info(p)
    \/ advanced_aws_version(p)
    \/ advanced_install_aws_cli(p)
    \/ advanced_save_file(p)
    \/ advanced_write_dockerfile(p)
    \/ advanced_docker_build(p)
    \/ advanced_push_docker_image_to_ecr(p)
    \/ advanced_get_caller_identity(p)
    \/ advanced_ensure_iam_role(p)
    \/ advanced_create_or_update_lambda_function(p)
    \/ advanced_return(p)

\* -------------------------------------------------------- specifications
\* One worker process: the handlers are coroutines without a suspension
\* point, so the event loop runs each request to its response before the next.
Next == Accept(1, Requests) \/ deploy(1) \/ advanced_deploy(1)

Spec == Init /\ [][Next]_vars

\* Several worker processes on one host, each followed through one request:
\* their statements interleave.
NextConcurrent ==
    \E p \in Workers :
        \/ pc[p] = "idle" /\ Accept(p, ConcurrentRequests)
        \/ deploy(p)
        \/ advanced_deploy(p)

SpecConcurrent == Init /\ [][NextConcurrent]_vars

\* One worker process serving advanced requests as far as their Dockerfile.
NextDockerfile ==
    \/ Accept(1, DockerfileRequests)
    \/ advanced_docker_info(1)
    \/ advanced_aws_version(1)
    \/ advanced_install_aws_cli(1)
    \/ advanced_save_file(1)
    \/ advanced_write_dockerfile(1)

SpecDockerfile == Init /\ [][NextDockerfile]_vars

\* ------------------------------------------------------------ properties
Idx(p) == 1..Len(calls[p])
Is(c, op, res) == c.op = op /\ c.res = res
Did(p, op, res) == \E i \in Idx(p) : Is(calls[p][i], op, res)
Called(p, op) == \E i \in Idx(p) : calls[p][i].op = op
\* A step that failed.  A non-zero `aws --version` is the cue to install, an
\* existing repository and an existing function are handled outcomes.
Failed(c) ==
    \/ c.res \in {"raised", "error"}
    \/ c.res = "nonzero" /\ c.op # "aws_version"
\* The request of worker p ended with exactly one response, of this status.
EndedWith(p, status) ==
    /\ pc[p] = "done"
    /\ Len(response[p]) = 1
    /\ response[p][1].status = status
Mentions(detail, text) == \E i \in DOMAIN detail : detail[i] = text

\* C1: in both handlers, when `docker info` exits non-zero nothing else of the
\* request runs (no write, build, ECR, IAM or Lambda call) and the request
\* ends with a 500 response saying that the daemon is not running.
C1_DaemonDownStopsRequest ==
    \A p \in Workers :
        \A i \in Idx(p) :
            Is(calls[p][i], "docker_info", "nonzero") =>
                /\ i = 1
                /\ Len(calls[p]) = 1
                /\ EndedWith(p, 500)
                /\ Mentions(response[p][1].detail, DaemonNotRunning[1])

\* A second request, to /advanced-deploy, finds the daemon down.
C1_Witness ==
    \E p \in Workers :
        /\ req[p].endpoint = "advanced"
        /\ nStarted = 2
        /\ Did(p, "docker_info", "nonzero")
        /\ pc[p] = "done"

\* C2: whichever step of a request fails, no step runs after it, no step is
\* run twice, and the request ends with exactly one response, of status 500;
\* a request with a failed step never gets a success response.
C2_FailureAbortsWithOne500 ==
    \A p \in Workers :
        /\ Len(response[p]) <= 1
        /\ pc[p] = "done" => Len(response[p]) = 1
        /\ \A i \in Idx(p) :
              Failed(calls[p][i]) =>
                  /\ i = Len(calls[p])
                  /\ EndedWith(p, 500)
        /\ \A i, j \in Idx(p) :
              (i < j /\ calls[p][i].op = calls[p][j].op) =>
                  calls[p][i].op = "save_file"
        /\ (Len(response[p]) = 1 /\ response[p][1].status = 200) =>
              \A i \in Idx(p) : ~Failed(calls[p][i])

\* A /deploy request got as far as the push, which failed.
C2_Witness ==
    \E p \in Workers :
        /\ req[p].endpoint = "deploy"
        /\ Did(p, "docker_tag", "ok")
        /\ Is(calls[p][Len(calls[p])], "docker_push", "nonzero")
        /\ EndedWith(p, 500)

\* The Lambda function a request is about.
FunctionKey(p) == <<loc[p].region, req[p].function_name>>
LambdaOps ==
    {"create_function", "update_function_code", "update_function_configuration"}

\* C3: the upsert creates the function when it does not exist; run again for
\* the same name it takes the ResourceConflict fallback and updates the code of
\* the existing function, no second function is created, and either way the
\* lambda_arn returned names that one function.
C3_UpsertIdempotent ==
    /\ \A i, j \in DOMAIN created : i # j => created[i] # created[j]
    /\ \A p \in Workers :
          /\ \A i \in Idx(p) :
                LET c == calls[p][i] IN
                /\ Is(c, "create_function", "ok") =>
                      /\ FunctionKey(p) \in DOMAIN lambdaFns
                      /\ \E k \in DOMAIN created : created[k] = FunctionKey(p)
                /\ Is(c, "create_function", "conflict") =>
                      /\ FunctionKey(p) \in DOMAIN lambdaFns
                      /\ IF i < Len(calls[p])
                         THEN /\ calls[p][i + 1].op = "update_function_code"
                              /\ calls[p][i + 1].arg.FunctionName =
                                    req[p].function_name
                         ELSE pc[p] = "update_function_code"
                /\ Is(c, "update_function_code", "ok") =>
                      lambdaFns[FunctionKey(p)].image = c.arg.ImageUri
          /\ (req[p].endpoint = "deploy" /\ EndedWith(p, 200)) =>
                /\ \/ Did(p, "create_function", "ok")
                   \/ Did(p, "update_function_code", "ok")
                /\ response[p][1].lambda_arn =
                      <<"arn:aws:lambda:", loc[p].region, ":", AccountId,
                        ":function:", req[p].function_name>>

\* A second deployment of the same name succeeded through the fallback.
C3_Witness ==
    \E p \in Workers :
        /\ req[p].endpoint = "deploy"
        /\ EndedWith(p, 200)
        /\ Did(p, "create_function", "conflict")
        /\ Did(p, "update_function_code", "ok")
        /\ created = <<FunctionKey(p)>>

\* The request's lists as the claim words them: empty when omitted.
GivenOrEmpty(l) == IF l.some THEN l.val ELSE << >>
CarriesRequestVpc(args, r) ==
    /\ "VpcConfig" \in DOMAIN args
    /\ DOMAIN args.VpcConfig = {"SubnetIds", "SecurityGroupIds"}
    /\ args.VpcConfig.SubnetIds = GivenOrEmpty(r.subnet_ids)
    /\ args.VpcConfig.SecurityGroupIds = GivenOrEmpty(r.security_group_ids)
\* What advanced_deploy hands to create_or_update_lambda_function.
HandsOverVpc(c, r) ==
    c.op = "create_or_update_lambda_function" =>
        IF Truthy(r.vpc_id)
        THEN /\ c.arg.vpc_config.some
             /\ CarriesRequestVpc([VpcConfig |-> c.arg.vpc_config.val], r)
        ELSE ~c.arg.vpc_config.some

\* C4 as stated: without a vpc_id no Lambda call carries a VpcConfig, subnet
\* ids or security-group ids (and advanced_deploy hands over no vpc_config);
\* with one, the VpcConfig sent holds exactly the request's subnet ids and
\* security-group ids.
C4_NoVpcFieldsWithoutVpcId ==
    \A p \in Workers :
        \A i \in Idx(p) :
            LET c == calls[p][i] IN
            /\ HandsOverVpc(c, req[p])
            /\ c.op \in LambdaOps =>
                  IF Truthy(req[p].vpc_id)
                  THEN c.op # "update_function_code" =>
                          CarriesRequestVpc(c.arg, req[p])
                  ELSE "VpcConfig" \notin DOMAIN c.arg

\* C4 as amended: without a vpc_id no subnet id or security-group id is sent
\* and update_function_configuration is not called, but /deploy's
\* create_function still carries a VpcConfig argument, the empty mapping
\* (advanced_deploy hands over vpc_config=None); with a vpc_id the VpcConfig
\* holds exactly the request's lists.
C4_NoVpcIdsWithoutVpcId ==
    \A p \in Workers :
        \A i \in Idx(p) :
            LET c == calls[p][i] IN
            /\ HandsOverVpc(c, req[p])
            /\ c.op \in LambdaOps =>
                  /\ {"SubnetIds", "SecurityGroupIds"} \cap DOMAIN c.arg = {}
                  /\ IF Truthy(req[p].vpc_id)
                     THEN c.op # "update_function_code" =>
                             CarriesRequestVpc(c.arg, req[p])
                     ELSE /\ c.op # "update_function_configuration"
                          /\ "VpcConfig" \in DOMAIN c.arg =>
                                DOMAIN c.arg.VpcConfig = {}
                  /\ c.op = "create_function" => "VpcConfig" \in DOMAIN c.arg

\* A /deploy request naming subnets but no VPC created its function.
C4_Witness ==
    \E p \in Workers :
        /\ req[p].endpoint = "deploy"
        /\ ~Truthy(req[p].vpc_id)
        /\ req[p].subnet_ids.some
        /\ Did(p, "create_function", "ok")

\* C5: in /deploy an existing repository counts as success and the request
\* goes on to tag and push, so publishing twice to one repository works both
\* times; any other create_repository error ends the request before the tag.
C5_RepositoryIdempotent ==
    \A p \in Workers :
        req[p].endpoint = "deploy" =>
            \A i \in Idx(p) :
                LET c == calls[p][i] IN
                /\ (c.op = "create_repository" /\ c.res \in {"ok", "exists"}) =>
                      /\ <<c.region, c.arg>> \in ecrRepos
                      /\ IF i < Len(calls[p])
                         THEN calls[p][i + 1].op = "docker_tag"
                         ELSE pc[p] = "docker_tag"
                /\ Is(c, "create_repository", "error") =>
                      /\ i = Len(calls[p])
                      /\ EndedWith(p, 500)
                      /\ ~Called(p, "docker_tag")
                      /\ ~Called(p, "docker_push")

\* A second /deploy request found the repository and pushed.
C5_Witness ==
    \E p \in Workers :
        /\ req[p].endpoint = "deploy"
        /\ nStarted = 2
        /\ Did(p, "create_repository", "exists")
        /\ Did(p, "docker_push", "ok")
        /\ EndedWith(p, 200)

\* The effective region as the claim words it.
ClaimedRegion(r, env) ==
    IF r.region # None /\ r.region # "" THEN r.region
    ELSE IF env # None THEN env ELSE "us-west-2"
ClaimedHost(r, env) ==
    <<AccountId, ".dkr.ecr.", ClaimedRegion(r, env), ".amazonaws.com">>
ClaimedUri(r, env) ==
    ClaimedHost(r, env) \o <<"/", r.repository_name, ":", r.image_tag>>

\* C6: in /deploy the image reference tagged, pushed, given to Lambda and
\* returned is {account}.dkr.ecr.{region}.amazonaws.com/{repository}:{tag}
\* with the effective region (the request's, else AWS_DEFAULT_REGION, else
\* us-west-2), and the ECR login, the ECR client and the Lambda client use
\* that region.
C6_ImageUri ==
    \A p \in Workers :
        req[p].endpoint = "deploy" =>
            LET region == ClaimedRegion(req[p], envRegion)
                uri == ClaimedUri(req[p], envRegion) IN
            /\ \A i \in Idx(p) :
                  LET c == calls[p][i] IN
                  /\ c.op \in {"docker_tag", "docker_push"} => c.arg = uri
                  /\ c.op = "docker_login" => c.arg = ClaimedHost(req[p], envRegion)
                  /\ c.op = "create_function" => c.arg.Code.ImageUri = uri
                  /\ c.op = "update_function_code" => c.arg.ImageUri = uri
                  /\ c.op \in LambdaOps \cup {"get_login_password", "create_repository"}
                        => c.region = region
            /\ EndedWith(p, 200) => response[p][1].image_uri = uri

\* A /deploy request with an empty region succeeded in the environment's.
C6_Witness ==
    \E p \in Workers :
        /\ req[p].endpoint = "deploy"
        /\ req[p].region = ""
        /\ envRegion = "ap-south-1"
        /\ EndedWith(p, 200)

\* The lines of a Dockerfile as docker reads them: split at line breaks,
\* indentation dropped, blank lines skipped.
RECURSIVE SplitLines(_, _, _)
SplitLines(text, i, line) ==
    IF i > Len(text) THEN <<line>>
    ELSE IF text[i] = "\n" THEN <<line>> \o SplitLines(text, i + 1, << >>)
    ELSE SplitLines(text, i + 1, Append(line, text[i]))
IsSpace(piece) == piece \in {Indent, ""}
Strip(line) == SelectSeq(line, LAMBDA x : ~IsSpace(x))
NotEmpty(line) == line # << >>
StripAll(lines) == [k \in DOMAIN lines |-> Strip(lines[k])]
Lines(text) == SelectSeq(StripAll(SplitLines(text, 1, << >>)), NotEmpty)

\* C7: the Dockerfile of an advanced request is FROM <base_image>, then one
\* RUN line per build command in the order given, none dropped or doubled,
\* then COPY . . and last the CMD line.
C7_DockerfileKeepsOrder ==
    \A p \in Workers :
        req[p].endpoint = "advanced" =>
            \A i \in Idx(p) :
                calls[p][i].op = "write_dockerfile" =>
                    LET L == Lines(calls[p][i].arg)
                        cmds == req[p].build_commands
                        n == Len(cmds) IN
                    /\ Len(L) = n + 3
                    /\ L[1] = <<"FROM ", req[p].base_image>>
                    /\ \A k \in 1..n : L[k + 1] = <<"RUN ", cmds[k]>>
                    /\ L[n + 2] = <<"COPY . .">>
                    /\ L[n + 3] = <<"CMD [\"app.lambda_handler\"]">>
                    /\ i = Len(calls[p]) => cwd["Dockerfile"] = calls[p][i].arg

\* The Dockerfile for ["pip install x", "echo done"] was written.
C7_Witness ==
    \E p \in Workers :
        /\ req[p].endpoint = "advanced"
        /\ req[p].build_commands = <<"pip install x", "echo done">>
        /\ Called(p, "write_dockerfile")
        /\ "Dockerfile" \in DOMAIN cwd

\* The steps of /deploy in the order of the handler.
DeployOrder ==
    <<"docker_info", "aws_version", "install_aws_cli", "venv", "write_app",
      "write_requirements", "pip_install", "write_dockerfile", "docker_build",
      "get_caller_identity", "get_login_password", "docker_login",
      "create_repository", "docker_tag", "docker_push", "ensure_iam_role",
      "create_function", "update_function_code",
      "update_function_configuration">>
Rank(op) == CHOOSE k \in DOMAIN DeployOrder : DeployOrder[k] = op

\* C8: a /deploy request runs its steps forward only, each after the one
\* before it succeeded: nothing is pushed before a successful build and
\* registry login, and Lambda is not called before a successful push.
C8_StepsRunForward ==
    \A p \in Workers :
        req[p].endpoint = "deploy" =>
            /\ \A i, j \in Idx(p) :
                  i < j => Rank(calls[p][i].op) < Rank(calls[p][j].op)
            /\ \A i \in Idx(p) : i < Len(calls[p]) => ~Failed(calls[p][i])
            /\ Called(p, "docker_build") =>
                  /\ Did(p, "docker_info", "ok")
                  /\ Did(p, "write_app", "ok")
                  /\ Did(p, "write_requirements", "ok")
                  /\ Did(p, "write_dockerfile", "ok")
            /\ Called(p, "docker_push") =>
                  /\ Did(p, "docker_build", "ok")
                  /\ Did(p, "get_caller_identity", "ok")
                  /\ Did(p, "docker_login", "ok")
                  /\ Called(p, "create_repository")
                  /\ Did(p, "docker_tag", "ok")
            /\ (\E i \in Idx(p) : calls[p][i].op \in LambdaOps) =>
                  /\ Did(p, "docker_push", "ok")
                  /\ Did(p, "ensure_iam_role", "ok")
            /\ EndedWith(p, 200) =>
                  \/ Did(p, "create_function", "ok")
                  \/ Did(p, "update_function_code", "ok")

\* A /deploy request ran every step down to the configuration update.
C8_Witness ==
    \E p \in Workers :
        /\ req[p].endpoint = "deploy"
        /\ Did(p, "update_function_configuration", "ok")
        /\ EndedWith(p, 200)

\* The image reference of a /deploy request.
DeployRef(p) == RemoteRef(loc[p].ecr_uri, ImageName(req[p]))

\* What holds of the calls of /deploy's create-or-update at every moment.
C9_UpdatePath ==
    \A p \in Workers :
        req[p].endpoint = "deploy" =>
            \A i \in Idx(p) :
                LET c == calls[p][i]
                    last == i = Len(calls[p]) IN
                /\ Is(c, "create_function", "error") =>
                      /\ last
                      /\ EndedWith(p, 500)
                /\ c.op = "update_function_code" =>
                      /\ i > 1
                      /\ Is(calls[p][i - 1], "create_function", "conflict")
                /\ c.op = "update_function_configuration" =>
                      /\ i > 1
                      /\ Is(calls[p][i - 1], "update_function_code", "ok")
                      /\ Truthy(req[p].vpc_id)
                /\ Is(c, "update_function_code", "ok") =>
                      IF Truthy(req[p].vpc_id)
                      THEN IF last THEN pc[p] = "update_function_configuration"
                           ELSE calls[p][i + 1].op = "update_function_configuration"
                      ELSE last /\ pc[p] \in {"return", "done"}
                /\ Is(c, "update_function_code", "error") =>
                      last /\ EndedWith(p, 500)
                /\ Is(c, "update_function_configuration", "error") =>
                      /\ last
                      /\ EndedWith(p, 500)
                      /\ lambdaFns[FunctionKey(p)].image = DeployRef(p)

\* A failed update_function_configuration leaves the function as the code
\* update made it.
C9_NoRollback ==
    \A p \in Workers :
        (pc[p] = "update_function_configuration" /\ pc'[p] = "done") =>
            /\ lambdaFns' = lambdaFns
            /\ lambdaFns[FunctionKey(p)].image = DeployRef(p)

\* C9: on /deploy's update path the code is updated first and
\* update_function_configuration follows as a second call only with a vpc_id;
\* when it fails after the code update the request ends with an error and the
\* function keeps the new code and its old configuration; a creation error
\* other than the conflict is followed by no update call.
C9_UpdateNotAtomic == []C9_UpdatePath /\ [][C9_NoRollback]_vars

\* The configuration update failed: new code, old memory size.
C9_Witness ==
    \E p \in Workers :
        /\ req[p].endpoint = "deploy"
        /\ Did(p, "update_function_code", "ok")
        /\ Did(p, "update_function_configuration", "error")
        /\ EndedWith(p, 500)
        /\ lambdaFns[FunctionKey(p)].image = DeployRef(p)
        /\ lambdaFns[FunctionKey(p)].memory # req[p].memory_size

\* C10: requests served side by side are not isolated.  No statement of a
\* handler waits for another worker, so their writes to /tmp/deployment and to
\* the working directory and their builds under one image name interleave:
\* a build can read the other request's program, and a request can push the
\* image the other one built.
C10_NoIsolation ==
    \A p \in Workers :
        pc[p] \notin {"idle", "done"} =>
            ENABLED (deploy(p) \/ advanced_deploy(p))

\* Two /deploy requests for demo:v1: one built on the other's app.py, and what
\* it then pushed is the image the other one built.
C10_Witness ==
    \E p, q \in Workers :
        /\ p # q
        /\ req[p].endpoint = "deploy" /\ req[q].endpoint = "deploy"
        /\ req[p].python_script # req[q].python_script
        /\ ImageName(req[p]) = ImageName(req[q])
        /\ Did(p, "docker_build", "ok") /\ Did(q, "docker_build", "ok")
        /\ loc[p].built["app.py"] = req[q].python_script
        /\ loc[q].built # loc[p].built
        /\ Did(p, "docker_push", "ok")
        /\ ecrImages[DeployRef(p)] = loc[q].built

\* An advanced build whose context holds the virtual environment a /deploy
\* request made meanwhile, under a Dockerfile the build's request wrote.
C10_WitnessAdvanced ==
    \E p, q \in Workers :
        /\ p # q
        /\ req[p].endpoint = "advanced" /\ req[q].endpoint = "deploy"
        /\ Did(p, "docker_build", "ok")
        /\ pc[q] \notin {"idle", "done"}
        /\ "venv" \in DOMAIN loc[p].built

====
